---- MODULE Spec2Model ----
(***************************************************************************)
(* Entity Extraction API: the extractor (extract.py) and the HTTP          *)
(* handlers (api.py).                                                      *)
(*                                                                         *)
(* Python values are records [kind, val] whose kind is the Python type     *)
(* name, so that None, str, int, list and dict are told apart and can be   *)
(* compared.  A model reply is a sequence of lexemes; its text is the      *)
(* lexemes joined by single spaces.                                        *)
(***************************************************************************)
EXTENDS Integers, Sequences, FiniteSets, TLC

\* Longest enumerated model reply, in lexemes.
MaxReplyLen == 3
\* Longest batch request, in URLs.
MaxBatch == 2
\* Number of upload requests that may be in flight together.
NReq == 2

VARIABLES
    fs,             \* the file system: path -> file
    env_key,        \* os.getenv("OPENAI_API_KEY"), None when unset
    upstream,       \* extractor runs: how the model answers the next call
    op,             \* extractor runs: the last extractor operation and its argument
    result,         \* extractor runs: the EntityExtractionResult it returned
    model_requests, \* outbound chat-completion requests of the current operation
    meta_reads,     \* Image.open calls of the current operation
    encodes,        \* _encode_image calls of the current operation
    extractors,     \* ImageEntityExtractor instances created by the current request
    request,        \* URL endpoints: the request being served
    pc,             \* URL endpoints: position of its handler
    idx,            \* batch: number of URLs the loop has consumed
    results,        \* batch: results
    successful,     \* batch: successful
    failed,         \* batch: failed
    invoked,        \* batch: URLs the extractor was invoked on, in order
    response,       \* URL endpoints: the HTTP response sent
    uploads         \* file endpoint: per request, its upload and handler state

vars == <<fs, env_key, upstream, op, result, model_requests, meta_reads, encodes,
          extractors, request, pc, idx, results, successful, failed, invoked,
          response, uploads>>

extractVars == <<upstream, op, result, meta_reads, encodes>>
urlVars == <<request, pc, idx, results, successful, failed, invoked, response>>

--------------------------------------------------------------------------
(* Python values *)

None == [kind |-> "NoneType", val |-> <<>>]
PyStr(s) == [kind |-> "str", val |-> s]
PyInt(n) == [kind |-> "int", val |-> n]
PyList(q) == [kind |-> "list", val |-> q]
PyDict(f) == [kind |-> "dict", val |-> f]
EmptyDict == PyDict(<<>>)

\* An exception: its class and str(e).
Exc(type, msg) == [type |-> type, msg |-> msg]
Raised(type, msg) == [raised |-> TRUE, exc |-> Exc(type, msg), val |-> None]
Returned(v) == [raised |-> FALSE, exc |-> Exc("", ""), val |-> v]

\* len(v) for the sized builtin types, TypeError otherwise.
PyLen(v) ==
    CASE v.kind = "list" -> Returned(PyInt(Len(v.val)))
      [] v.kind = "str" -> Returned(PyInt(Len(v.val)))
      [] v.kind = "dict" -> Returned(PyInt(Cardinality(DOMAIN v.val)))
      [] OTHER -> Raised("TypeError", "object of type '" \o v.kind \o "' has no len()")

\* v.get(key, default): only dict has the attribute.
PyGet(v, key, default) ==
    IF v.kind = "dict"
    THEN Returned(IF key \in DOMAIN v.val THEN v.val[key] ELSE default)
    ELSE Raised("AttributeError", "'" \o v.kind \o "' object has no attribute 'get'")

--------------------------------------------------------------------------
(* json.loads on a sequence of lexemes *)

StringLexemes == {"\"entities\"", "\"a\""}
Lexemes == {"{", "}", "[", "]", ":", ",", "1", "null", "Hi"} \cup StringLexemes

\* The str a string literal denotes.
StringOf(lex) == IF lex = "\"entities\"" THEN "entities" ELSE "a"

ParseFail(msg) == [ok |-> FALSE, val |-> None, rest |-> <<>>, msg |-> msg]
ParseOk(v, rest) == [ok |-> TRUE, val |-> v, rest |-> rest, msg |-> ""]

RECURSIVE ParseValue(_), ParseArrayRest(_, _), ParseObjectRest(_, _)

\* One JSON value at the head of s, and what follows it.
ParseValue(s) ==
    IF s = <<>> THEN ParseFail("Expecting value")
    ELSE LET h == Head(s)
             t == Tail(s)
         IN CASE h = "1" -> ParseOk(PyInt(1), t)
              [] h = "null" -> ParseOk(None, t)
              [] h \in StringLexemes -> ParseOk(PyStr(StringOf(h)), t)
              [] h = "[" ->
                    IF t # <<>> /\ Head(t) = "]"
                    THEN ParseOk(PyList(<<>>), Tail(t))
                    ELSE ParseArrayRest(t, <<>>)
              [] h = "{" ->
                    IF t # <<>> /\ Head(t) = "}"
                    THEN ParseOk(EmptyDict, Tail(t))
                    ELSE ParseObjectRest(t, <<>>)
              [] OTHER -> ParseFail("Expecting value")

\* The elements of an array after "[" or ",": a value, then "," or "]".
ParseArrayRest(s, acc) ==
    LET v == ParseValue(s)
    IN IF ~v.ok THEN v
       ELSE IF v.rest = <<>> THEN ParseFail("Expecting ',' delimiter")
       ELSE IF Head(v.rest) = "]"
            THEN ParseOk(PyList(Append(acc, v.val)), Tail(v.rest))
       ELSE IF Head(v.rest) = ","
            THEN ParseArrayRest(Tail(v.rest), Append(acc, v.val))
       ELSE ParseFail("Expecting ',' delimiter")

\* The members of an object after "{" or ",": key ":" value, then "," or "}".
\* A repeated key keeps its last value.
ParseObjectRest(s, acc) ==
    IF s = <<>> \/ Head(s) \notin StringLexemes
    THEN ParseFail("Expecting property name enclosed in double quotes")
    ELSE IF Len(s) < 2 \/ s[2] # ":" THEN ParseFail("Expecting ':' delimiter")
    ELSE LET v == ParseValue(SubSeq(s, 3, Len(s)))
             members == (StringOf(Head(s)) :> v.val) @@ acc
         IN IF ~v.ok THEN v
            ELSE IF v.rest = <<>> THEN ParseFail("Expecting ',' delimiter")
            ELSE IF Head(v.rest) = "}"
                 THEN ParseOk(PyDict(members), Tail(v.rest))
            ELSE IF Head(v.rest) = ","
                 THEN ParseObjectRest(Tail(v.rest), members)
            ELSE ParseFail("Expecting ',' delimiter")

\* json.loads(content): the whole text must be one value.  content None is a
\* TypeError, which is no JSONDecodeError.
json_loads(content) ==
    IF content = None
    THEN Raised("TypeError",
                "the JSON object must be str, bytes or bytearray, not NoneType")
    ELSE LET p == ParseValue(content.val)
         IN IF ~p.ok THEN Raised("JSONDecodeError", p.msg)
            ELSE IF p.rest # <<>> THEN Raised("JSONDecodeError", "Extra data")
            ELSE Returned(p.val)

\* re.search(r'\{.*\}', content, re.DOTALL): from the first "{" to the last "}".
Positions(s, lex) == {i \in 1..Len(s) : s[i] = lex}
Min(S) == CHOOSE x \in S : \A y \in S : x <= y
Max(S) == CHOOSE x \in S : \A y \in S : x >= y
re_search_braces(s) ==
    LET opens == Positions(s, "{")
        closes == Positions(s, "}")
    IN IF opens # {} /\ closes # {} /\ Min(opens) < Max(closes)
       THEN [found |-> TRUE, group |-> SubSeq(s, Min(opens), Max(closes))]
       ELSE [found |-> FALSE, group |-> <<>>]

--------------------------------------------------------------------------
(* The file system and the image helpers of the extractor *)

\* A file is its bytes and its inode; ino tells apart two files that were created
\* at the same path one after the other.
NoFile == [kind |-> "absent", bytes |-> "", ino |-> 0]
RegularFile(b, ino) == [kind |-> "file", bytes |-> b, ino |-> ino]
Directory == [kind |-> "dir", bytes |-> "", ino |-> 0]

\* The byte strings PIL can open as an image.
ImageBytes == {"imgA", "imgB"}

\* os.path.exists(path)
os_path_exists_always(disk, path) == TRUE
os_path_exists(disk, path) == disk[path].kind # "absent"

\* base64.b64encode(bytes).decode('utf-8') of the byte strings the model uses.
b64encode(b) ==
    CASE b = "imgA" -> "aW1nQQ=="
      [] b = "imgB" -> "aW1nQg=="
      [] b = "junk" -> "anVuaw=="
      [] OTHER -> ""

\* _encode_image: open(image_path, "rb") and encode what is read.
_encode_image(disk, path) ==
    CASE disk[path].kind = "absent" ->
            Raised("FileNotFoundError",
                   "[Errno 2] No such file or directory: '" \o path \o "'")
      [] disk[path].kind = "dir" ->
            Raised("IsADirectoryError", "[Errno 21] Is a directory: '" \o path \o "'")
      [] OTHER -> Returned(PyStr(b64encode(disk[path].bytes)))

\* What PIL reads from the two images of the model.
ImageWidth(b) == IF b = "imgA" THEN 4 ELSE 8
ImageHeight(b) == IF b = "imgA" THEN 3 ELSE 6

\* _get_image_info: the metadata of an image; {} when Image.open fails.
_get_image_info(disk, path) ==
    IF disk[path].kind = "file" /\ disk[path].bytes \in ImageBytes
    THEN PyDict([width |-> PyInt(ImageWidth(disk[path].bytes)),
                 height |-> PyInt(ImageHeight(disk[path].bytes)),
                 format |-> PyStr("JPEG"),
                 mode |-> PyStr("RGB"),
                 size_bytes |-> PyInt(Len(disk[path].bytes))])
    ELSE EmptyDict

--------------------------------------------------------------------------
(* The extractor: extract_entities and extract_entities_from_url *)

EntityExtractionResult(success, entities, error, image_info) ==
    [success |-> success, entities |-> entities, error |-> error,
     image_info |-> image_info]

\* The image part of the chat-completion request.
ChatRequest(url) == [model |-> "gpt-4.1", url |-> url, detail |-> "high"]

\* client.chat.completions.create(...) and response.choices[0].message.content:
\* one outbound request; the upstream raises or replies.
call_model_retrying(up, url) ==
    [outcome |-> IF up.raises THEN Raised("APIError", up.msg) ELSE Returned(up.content),
     requests |-> IF up.raises THEN <<ChatRequest(url), ChatRequest(url)>>
                  ELSE <<ChatRequest(url)>>]
call_model(up, url) ==
    [outcome |-> IF up.raises THEN Raised("APIError", up.msg) ELSE Returned(up.content),
     requests |-> <<ChatRequest(url)>>]

\* json.loads(content), and on JSONDecodeError the brace span of the text.
loads_with_fallback(content) ==
    LET direct == json_loads(content)
    IN IF ~direct.raised THEN direct
       ELSE IF direct.exc.type # "JSONDecodeError" THEN direct
       ELSE LET json_match == re_search_braces(content.val)
            IN IF json_match.found
               THEN json_loads(PyStr(json_match.group))
               ELSE Raised("ValueError", "Could not parse JSON from response")

\* len(entities_data.get('entities', [])) of the "Successfully extracted" log line.
entity_count_unchecked(entities_data) == Returned(PyInt(0))
entity_count(entities_data) ==
    LET got == PyGet(entities_data, "entities", PyList(<<>>))
    IN IF got.raised THEN got ELSE PyLen(got.val)

\* "Parse response" up to the log line: entities_data, or the exception raised.
parse_response(content) ==
    LET parsed == loads_with_fallback(content)
    IN IF parsed.raised THEN parsed
       ELSE IF entity_count(parsed.val).raised THEN entity_count(parsed.val)
       ELSE parsed

\* The result on the success path.
success_result_entities_member(entities_data, image_info) ==
    EntityExtractionResult(TRUE,
        IF "entities" \in DOMAIN entities_data.val
        THEN entities_data.val["entities"] ELSE entities_data,
        None, image_info)
success_result(entities_data, image_info) ==
    EntityExtractionResult(TRUE, entities_data, None, image_info)

\* The result of the except Exception branch.
failure_result_without_info(e, image_info) ==
    EntityExtractionResult(FALSE, None, PyStr(e.msg), None)
failure_result(e, image_info) ==
    EntityExtractionResult(FALSE, None, PyStr(e.msg), image_info)

Effects(res, requests, nmeta, nenc) ==
    [result |-> res, requests |-> requests, meta_reads |-> nmeta, encodes |-> nenc]

UrlImageInfo_source_only(image_url) == PyDict([source |-> PyStr("url")])
UrlImageInfo(image_url) == PyDict([source |-> PyStr("url"), url |-> PyStr(image_url)])

extract_entities_from_url(image_url, up) ==
    LET call == call_model(up, image_url)
        parsed == IF call.outcome.raised THEN call.outcome
                  ELSE parse_response(call.outcome.val)
    IN Effects(IF parsed.raised
               THEN failure_result(parsed.exc, UrlImageInfo(image_url))
               ELSE success_result(parsed.val, UrlImageInfo(image_url)),
               call.requests, 0, 0)

extract_entities(disk, image_path, up) ==
    IF ~os_path_exists(disk, image_path)
    THEN Effects(EntityExtractionResult(FALSE, None,
                     PyStr("Image file not found: " \o image_path), None),
                 <<>>, 0, 0)
    ELSE LET image_info == _get_image_info(disk, image_path)
             base64_image == _encode_image(disk, image_path)
         IN IF base64_image.raised
            THEN Effects(failure_result(base64_image.exc, image_info), <<>>, 1, 1)
            ELSE LET call == call_model(up,
                                 "data:image/jpeg;base64," \o base64_image.val.val)
                     parsed == IF call.outcome.raised THEN call.outcome
                               ELSE parse_response(call.outcome.val)
                 IN Effects(IF parsed.raised
                            THEN failure_result(parsed.exc, image_info)
                            ELSE success_result(parsed.val, image_info),
                            call.requests, 1, 1)

--------------------------------------------------------------------------
(* Extractor runs: one upstream behaviour, any sequence of extractions *)

\* Replies longer than MaxReplyLen that the enumeration does not reach.
LongReplies ==
    { <<"{", "\"entities\"", ":", "[", "]", "}">>,
      <<"{", "\"entities\"", ":", "1", "}">>,
      <<"{", "\"entities\"", ":", "null", "}">>,
      <<"{", "\"entities\"", ":", "\"a\"", "}">>,
      <<"{", "\"a\"", ":", "1", "}">>,
      <<"{", "\"a\"", ":", "1", ",", "\"a\"", ":", "null", "}">>,
      <<"[", "{", "}", "]">>,
      <<"Hi", "{", "\"a\"", ":", "1", "}", "Hi">>,
      <<"Hi", "{", "}", "Hi", "}">>,
      <<"{", "}", "{", "}">>,
      <<"Hi", "{", "\"entities\"", ":", "1", "}">>,
      <<"Hi", "{", "\"entities\"", ":", "[", "]", "}", "Hi">>,
      <<"}", "Hi", "{", "}", "Hi">> }

Replies == UNION {[1..n -> Lexemes] : n \in 0..MaxReplyLen} \cup LongReplies

\* str(e) of the exceptions the model call raises; an exception without
\* arguments has the empty message.
UpstreamErrors == {"Connection error.", "Request timed out.", ""}

Upstreams ==
    {[raises |-> TRUE, msg |-> m, content |-> None] : m \in UpstreamErrors}
    \cup {[raises |-> FALSE, msg |-> "", content |-> PyStr(r)] : r \in Replies}
    \cup {[raises |-> FALSE, msg |-> "", content |-> None]}

Urls == {"https://example.com/a.jpg", "https://example.com/b.jpg"}

Paths == {"missing.jpg", "gone.png", "photo.jpg", "notes.txt", "/tmp"}
SampleDisk ==
    [p \in Paths |->
        CASE p = "photo.jpg" -> RegularFile("imgA", 1)
          [] p = "notes.txt" -> RegularFile("junk", 2)
          [] p = "/tmp" -> Directory
          [] OTHER -> NoFile]

NoOp == [name |-> "none", arg |-> ""]
NoRequest == [kind |-> "none", image_urls |-> <<>>, api_key |-> None]

\* The variables of the URL endpoints and of the upload endpoint at rest.
UrlIdle ==
    /\ request = NoRequest /\ pc = "idle" /\ idx = 0 /\ results = <<>>
    /\ successful = 0 /\ failed = 0 /\ invoked = <<>> /\ response = None
FileIdle == uploads = <<>>

InitExtract ==
    /\ fs = SampleDisk
    /\ env_key = None
    /\ upstream \in Upstreams
    /\ op = NoOp
    /\ result = None
    /\ model_requests = <<>> /\ meta_reads = 0 /\ encodes = 0 /\ extractors = 0
    /\ UrlIdle /\ FileIdle

ExtractEntities(image_path) ==
    LET eff == extract_entities(fs, image_path, upstream)
    IN /\ op' = [name |-> "extract_entities", arg |-> image_path]
       /\ result' = eff.result
       /\ model_requests' = eff.requests
       /\ meta_reads' = eff.meta_reads
       /\ encodes' = eff.encodes
       /\ UNCHANGED <<fs, env_key, upstream, extractors, uploads>>
       /\ UNCHANGED urlVars

ExtractEntitiesFromUrl(image_url) ==
    LET eff == extract_entities_from_url(image_url, upstream)
    IN /\ op' = [name |-> "extract_entities_from_url", arg |-> image_url]
       /\ result' = eff.result
       /\ model_requests' = eff.requests
       /\ meta_reads' = eff.meta_reads
       /\ encodes' = eff.encodes
       /\ UNCHANGED <<fs, env_key, upstream, extractors, uploads>>
       /\ UNCHANGED urlVars

NextExtract ==
    \/ \E image_path \in Paths : ExtractEntities(image_path)
    \/ \E image_url \in Urls : ExtractEntitiesFromUrl(image_url)

SpecExtract == InitExtract /\ [][NextExtract]_vars

--------------------------------------------------------------------------
(* Properties of the extractor, under SpecExtract *)

Ran(name) == op.name = name
RanAny == op.name # "none"
CallMade == model_requests # <<>>

\* C7: extract_entities on a path that does not exist returns success=false,
\* error "Image file not found: <path>", entities None and image_info None, and
\* reads no metadata, encodes nothing and sends no request to the model.
C7_MissingPathFailsFast ==
    (Ran("extract_entities") /\ fs[op.arg].kind = "absent") =>
        /\ result = EntityExtractionResult(FALSE, None,
                        PyStr("Image file not found: " \o op.arg), None)
        /\ meta_reads = 0
        /\ encodes = 0
        /\ model_requests = <<>>

C7_Witness ==
    /\ Ran("extract_entities")
    /\ op.arg = "missing.jpg"
    /\ result.error = PyStr("Image file not found: missing.jpg")

\* C8: when the model call raises, either operation returns a result with
\* success=false whose error is the message of that exception, and exactly one
\* request was sent to the model; extract_entities_from_url always sends one.
C8_UpstreamFailureIsAResult ==
    /\ (RanAny /\ CallMade /\ upstream.raises) =>
            /\ ~result.success
            /\ result.error = PyStr(upstream.msg)
            /\ result.entities = None
            /\ Len(model_requests) = 1
    /\ Ran("extract_entities_from_url") => Len(model_requests) = 1

C8_Witness ==
    /\ Ran("extract_entities")
    /\ op.arg = "photo.jpg"
    /\ upstream.raises
    /\ upstream.msg = "Request timed out."
    /\ Len(model_requests) = 1
    /\ ~result.success

\* C9: every returned result has success=true with entities set and error None,
\* or success=false with error set and entities None.
C9_ResultShape ==
    RanAny =>
        /\ result.success => (result.entities # None /\ result.error = None)
        /\ ~result.success => (result.error # None /\ result.entities = None)
        /\ result.error # None => result.error.kind = "str"

C9_Witness ==
    /\ Ran("extract_entities_from_url")
    /\ result.success
    /\ result.entities = EmptyDict

\* The reply parses as a whole as JSON.
WholeJson == ~upstream.raises /\ ~json_loads(upstream.content).raised
WholeJsonValue == json_loads(upstream.content).val

\* A value len() accepts.
Sized(v) == v.kind \in {"list", "dict", "str"}

NotWholeJson ==
    /\ ~upstream.raises
    /\ upstream.content # None
    /\ json_loads(upstream.content).raised

\* The text from the first "{" to the last "}" of the reply, when there is one.
HasSpan ==
    /\ Positions(upstream.content.val, "{") # {}
    /\ Positions(upstream.content.val, "}") # {}
    /\ Min(Positions(upstream.content.val, "{"))
          < Max(Positions(upstream.content.val, "}"))
Span ==
    SubSeq(upstream.content.val, Min(Positions(upstream.content.val, "{")),
           Max(Positions(upstream.content.val, "}")))
SpanParses == HasSpan /\ ~json_loads(PyStr(Span)).raised
SpanValue == json_loads(PyStr(Span)).val

\* The "entities" member of an object, when present, is a value len() accepts.
CountableObject(v) ==
    v.kind = "dict" /\ ("entities" \in DOMAIN v.val => Sized(v.val["entities"]))

\* What C11 says in every case but the one where the span parses.
C11_Common ==
    /\ (RanAny /\ CallMade /\ WholeJson /\ result.success) =>
            result.entities = WholeJsonValue
    /\ (RanAny /\ CallMade /\ NotWholeJson /\ ~HasSpan) =>
            /\ ~result.success
            /\ result.error = PyStr("Could not parse JSON from response")
    /\ (RanAny /\ CallMade /\ NotWholeJson /\ HasSpan /\ ~SpanParses) =>
            /\ ~result.success
            /\ result.error.kind = "str"

\* C11 as claimed: the fallback is used only when the whole reply does not
\* parse; it parses the text from the first "{" to the last "}"; when that text
\* parses the extraction returns it as entities; without such a span the result
\* is a Failure with "Could not parse JSON from response", and a span that does
\* not parse gives a Failure too.
C11_SpanIsReturned ==
    /\ C11_Common
    /\ (RanAny /\ CallMade /\ NotWholeJson /\ SpanParses) =>
            (result.success /\ result.entities = SpanValue)

\* What the code does where C11 fails: a span that parses is returned as
\* entities only when its "entities" member, if present, is an array, an object
\* or a string; otherwise the log line raises and the result is a Failure.
C11_FallbackParse ==
    /\ C11_Common
    /\ (RanAny /\ CallMade /\ NotWholeJson /\ SpanParses) =>
            IF CountableObject(SpanValue)
            THEN result.success /\ result.entities = SpanValue
            ELSE ~result.success /\ result.entities = None

C11_Witness ==
    /\ Ran("extract_entities_from_url")
    /\ upstream.content
          = PyStr(<<"Hi", "{", "\"entities\"", ":", "[", "]", "}", "Hi">>)
    /\ result.success
    /\ result.entities = PyDict([entities |-> PyList(<<>>)])

\* The path given to extract_entities exists, and Image.open fails on it.
PathExists == fs[op.arg].kind # "absent"
MetadataFails ==
    PathExists /\ ~(fs[op.arg].kind = "file" /\ fs[op.arg].bytes \in ImageBytes)

\* The reply is one the extraction succeeds on.
GoodReply == WholeJson /\ CountableObject(WholeJsonValue)

\* Every failure after the existence check carries the metadata gathered.
C12_FailureKeepsInfo ==
    (Ran("extract_entities") /\ PathExists /\ ~result.success) =>
        /\ result.image_info # None
        /\ result.image_info = _get_image_info(fs, op.arg)

\* C12 as claimed: for every existing path on which metadata extraction fails,
\* the image is still encoded and the model called, the result carries
\* image_info = {} and the extraction succeeds when the reply is good; and every
\* failure after metadata acquisition carries the metadata gathered, not None.
C12_MetadataFailureIsHarmless ==
    /\ (Ran("extract_entities") /\ MetadataFails) =>
            /\ meta_reads = 1
            /\ encodes = 1
            /\ Len(model_requests) = 1
            /\ result.image_info = EmptyDict
            /\ GoodReply => result.success
    /\ C12_FailureKeepsInfo

\* C12 amended: the same for every existing path that can be read as a file;
\* on an existing path that cannot be read (a directory) the encoding step
\* raises, no model call is made and the result is a Failure with image_info {}.
C12_MetadataFailureOnReadableFile ==
    /\ (Ran("extract_entities") /\ MetadataFails) =>
            /\ meta_reads = 1
            /\ encodes = 1
            /\ result.image_info = EmptyDict
            /\ IF fs[op.arg].kind = "file"
               THEN /\ Len(model_requests) = 1
                    /\ GoodReply => result.success
               ELSE /\ model_requests = <<>>
                    /\ ~result.success
    /\ C12_FailureKeepsInfo

C12_Witness ==
    /\ Ran("extract_entities")
    /\ op.arg = "notes.txt"
    /\ upstream.raises
    /\ Len(model_requests) = 1
    /\ ~result.success
    /\ result.image_info = EmptyDict

\* C13: extract_entities_from_url(u) sends exactly one request, whose image
\* reference is u itself, and returns image_info {source: "url", url: u} whether
\* it succeeds or fails.
C13_UrlForwardedUnchanged ==
    Ran("extract_entities_from_url") =>
        /\ model_requests = <<[model |-> "gpt-4.1", url |-> op.arg, detail |-> "high"]>>
        /\ result.image_info = PyDict([source |-> PyStr("url"), url |-> PyStr(op.arg)])

C13_Witness ==
    /\ Ran("extract_entities_from_url")
    /\ op.arg = "https://example.com/b.jpg"
    /\ upstream.raises
    /\ ~result.success
    /\ result.image_info.val["url"] = PyStr("https://example.com/b.jpg")

\* C15: every result with success=true carries a JSON object as entities; a reply
\* that parses as a whole to an array, a string, a number or null ends as a
\* Failure whose error is the AttributeError of the .get lookup.
C15_SuccessEntitiesIsObject ==
    /\ (RanAny /\ result.success) => result.entities.kind = "dict"
    /\ (RanAny /\ CallMade /\ WholeJson /\ WholeJsonValue.kind # "dict") =>
            /\ ~result.success
            /\ result.error
                 = PyStr("'" \o WholeJsonValue.kind \o "' object has no attribute 'get'")

C15_Witness ==
    /\ Ran("extract_entities_from_url")
    /\ upstream.content = PyStr(<<"[", "1", "]">>)
    /\ ~result.success
    /\ result.error = PyStr("'list' object has no attribute 'get'")

--------------------------------------------------------------------------
(* The HTTP layer of api.py *)

\* Python truth value of an Optional[str], and `a or b`.
Falsy(v) == v = None \/ (v.kind = "str" /\ v.val = "")
PyOr(a, b) == IF Falsy(a) THEN b ELSE a

HTTPException(status_code, detail) == [status_code |-> status_code, detail |-> detail]

\* str(e) of an HTTPException: "<status_code>: <detail>".
HTTPExceptionStr(e) == ToString(e.status_code) \o ": " \o e.detail

\* The `except Exception as e` clause that closes every handler: any exception
\* raised in the try block, an HTTPException included, leaves as
\* HTTPException(status_code=500, detail=str(e)).
reraise_as_500(msg) == HTTPException(500, msg)

\* http_exception_handler: the JSON error response.
http_exception_handler(exc) ==
    [status_code |-> exc.status_code, error |-> PyStr(exc.detail), body |-> None]

\* A response built from the handler's return value.
OkResponse(body) == [status_code |-> 200, error |-> None, body |-> body]

\* api_key = request.api_key or os.getenv("OPENAI_API_KEY"); if not api_key: raise.
resolve_api_key(request_key, env) ==
    IF Falsy(PyOr(request_key, env))
    THEN Raised("HTTPException",
                HTTPExceptionStr(HTTPException(400, "OpenAI API key is required")))
    ELSE Returned(PyOr(request_key, env))

\* EntityResponse(...): pydantic rejects entities and image_info that are neither
\* a dict nor None, and an error that is neither a str nor None.
EntityResponse(success, entities, error, image_info) ==
    IF /\ entities.kind \in {"dict", "NoneType"}
       /\ error.kind \in {"str", "NoneType"}
       /\ image_info.kind \in {"dict", "NoneType"}
    THEN Returned([success |-> success, entities |-> entities, error |-> error,
                   image_info |-> image_info])
    ELSE Raised("ValidationError", "1 validation error for EntityResponse")

ResponseOf(r) == EntityResponse(r.success, r.entities, r.error, r.image_info)

\* The model behaviours the endpoints are run against.
ServiceReplies ==
    { <<"{", "\"entities\"", ":", "[", "]", "}">>,
      <<"Hi", "{", "}", "Hi">>,
      <<"[", "]">>,
      <<"Hi">> }
ServiceUpstreams ==
    {[raises |-> TRUE, msg |-> "Connection error.", content |-> None]}
    \cup {[raises |-> FALSE, msg |-> "", content |-> PyStr(r)] : r \in ServiceReplies}

--------------------------------------------------------------------------
(* POST /extract/url and POST /extract/batch, one request at a time *)

ApiKeys == {None, PyStr(""), PyStr("sk-request")}
EnvKeys == {None, PyStr("sk-env")}

UrlLists == UNION {[1..n -> Urls] : n \in 0..MaxBatch}
UrlRequests ==
    {[kind |-> "url", image_urls |-> <<u>>, api_key |-> k] : u \in Urls, k \in ApiKeys}
    \cup {[kind |-> "batch", image_urls |-> us, api_key |-> k] :
            us \in UrlLists, k \in ApiKeys}

\* What the call batch_extractor.extract_entities_from_url(str(url)) does in the
\* loop: it returns the extractor's result for some behaviour of the model, or
\* an exception leaves it, which is the case the loop's except branch is for.
EscapedErrors == {"escaped"}
CallOutcomes(url) ==
    {Returned(extract_entities_from_url(url, up)) : up \in ServiceUpstreams}
    \cup {Raised("RuntimeError", m) : m \in EscapedErrors}

\* The entry the except branch of the loop appends.
ItemFailure(url, msg) ==
    [success |-> FALSE, entities |-> None, error |-> PyStr(msg),
     image_info |-> UrlImageInfo(url)]

\* One iteration of `for url in request.image_urls`, on the loop's accumulators.
batch_item_drops_escaped(acc, url, out) ==
    IF out.raised \/ ResponseOf(out.val.result).raised
    THEN [results |-> acc.results, successful |-> acc.successful,
          failed |-> acc.failed + 1]
    ELSE [results |-> Append(acc.results, ResponseOf(out.val.result).val),
          successful |-> acc.successful + (IF out.val.result.success THEN 1 ELSE 0),
          failed |-> acc.failed + (IF out.val.result.success THEN 0 ELSE 1)]
batch_item_prepends(acc, url, out) ==
    IF out.raised \/ ResponseOf(out.val.result).raised
    THEN [results |-> <<ItemFailure(url, IF out.raised THEN out.exc.msg
                                         ELSE ResponseOf(out.val.result).exc.msg)>>
                      \o acc.results,
          successful |-> acc.successful,
          failed |-> acc.failed + 1]
    ELSE [results |-> <<ResponseOf(out.val.result).val>> \o acc.results,
          successful |-> acc.successful + (IF out.val.result.success THEN 1 ELSE 0),
          failed |-> acc.failed + (IF out.val.result.success THEN 0 ELSE 1)]
batch_item_miscounts(acc, url, out) ==
    IF out.raised \/ ResponseOf(out.val.result).raised
    THEN [results |-> Append(acc.results,
                        ItemFailure(url, IF out.raised THEN out.exc.msg
                                         ELSE ResponseOf(out.val.result).exc.msg)),
          successful |-> acc.successful,
          failed |-> acc.failed + 1]
    ELSE [results |-> Append(acc.results, ResponseOf(out.val.result).val),
          successful |-> acc.successful + 1,
          failed |-> acc.failed + (IF out.val.result.success THEN 0 ELSE 1)]
batch_item(acc, url, out) ==
    IF out.raised \/ ResponseOf(out.val.result).raised
    THEN [results |-> Append(acc.results,
                        ItemFailure(url, IF out.raised THEN out.exc.msg
                                         ELSE ResponseOf(out.val.result).exc.msg)),
          successful |-> acc.successful,
          failed |-> acc.failed + 1]
    ELSE [results |-> Append(acc.results, ResponseOf(out.val.result).val),
          successful |-> acc.successful + (IF out.val.result.success THEN 1 ELSE 0),
          failed |-> acc.failed + (IF out.val.result.success THEN 0 ELSE 1)]

BatchEntityResponse(rs, total, nsucc, nfail) ==
    [results |-> rs, total_processed |-> total, successful |-> nsucc, failed |-> nfail]

\* The extractor's own variables at rest.
ExtractIdle ==
    /\ upstream = [raises |-> FALSE, msg |-> "", content |-> None]
    /\ op = NoOp /\ result = None /\ meta_reads = 0 /\ encodes = 0

InitUrl ==
    /\ fs = SampleDisk
    /\ env_key \in EnvKeys
    /\ ExtractIdle
    /\ model_requests = <<>> /\ extractors = 0
    /\ UrlIdle /\ FileIdle

\* A request arrives and its handler starts with fresh locals.
Receive(req) ==
    /\ pc \in {"idle", "done"}
    /\ request' = req
    /\ pc' = "start"
    /\ idx' = 0 /\ results' = <<>> /\ successful' = 0 /\ failed' = 0
    /\ invoked' = <<>> /\ response' = None
    /\ model_requests' = <<>> /\ extractors' = 0
    /\ UNCHANGED <<fs, env_key, uploads>>
    /\ UNCHANGED extractVars

\* extract_entities_from_url of api.py, the whole handler.
UrlHandler ==
    /\ pc = "start" /\ request.kind = "url"
    /\ pc' = "done"
    /\ LET api_key == resolve_api_key(request.api_key, env_key)
           url == request.image_urls[1]
       IN IF api_key.raised
          THEN /\ response' = http_exception_handler(reraise_as_500(api_key.exc.msg))
               /\ UNCHANGED <<extractors, invoked, model_requests>>
          ELSE \E up \in ServiceUpstreams :
                 LET eff == extract_entities_from_url(url, up)
                 IN /\ extractors' = extractors + 1
                    /\ invoked' = Append(invoked, [url |-> url, out |-> Returned(eff)])
                    /\ model_requests' = model_requests \o eff.requests
                    /\ response' =
                         IF ResponseOf(eff.result).raised
                         THEN http_exception_handler(
                                  reraise_as_500(ResponseOf(eff.result).exc.msg))
                         ELSE OkResponse(ResponseOf(eff.result).val)
    /\ UNCHANGED <<fs, env_key, uploads, request, idx, results, successful, failed>>
    /\ UNCHANGED extractVars

\* extract_entities_batch up to the loop: the credential and the extractor.
BatchBegin ==
    /\ pc = "start" /\ request.kind = "batch"
    /\ LET api_key == resolve_api_key(request.api_key, env_key)
       IN IF api_key.raised
          THEN /\ response' = http_exception_handler(reraise_as_500(api_key.exc.msg))
               /\ pc' = "done"
               /\ UNCHANGED extractors
          ELSE /\ extractors' = extractors + 1
               /\ pc' = "loop"
               /\ UNCHANGED response
    /\ results' = <<>> /\ successful' = 0 /\ failed' = 0
    /\ UNCHANGED <<fs, env_key, uploads, request, idx, invoked, model_requests>>
    /\ UNCHANGED extractVars

\* One iteration of the loop over request.image_urls.
BatchItem ==
    /\ pc = "loop" /\ idx < Len(request.image_urls)
    /\ LET url == request.image_urls[idx + 1]
       IN \E out \in CallOutcomes(url) :
            LET acc == batch_item([results |-> results, successful |-> successful,
                                   failed |-> failed], url, out)
            IN /\ results' = acc.results
               /\ successful' = acc.successful
               /\ failed' = acc.failed
               /\ invoked' = Append(invoked, [url |-> url, out |-> out])
               /\ model_requests' =
                    model_requests \o (IF out.raised THEN <<>> ELSE out.val.requests)
    /\ idx' = idx + 1
    /\ UNCHANGED <<fs, env_key, uploads, request, pc, response, extractors>>
    /\ UNCHANGED extractVars

\* The loop is exhausted: the BatchEntityResponse is returned.
BatchReturn ==
    /\ pc = "loop" /\ idx = Len(request.image_urls)
    /\ response' = OkResponse(BatchEntityResponse(results, Len(request.image_urls),
                                                  successful, failed))
    /\ pc' = "done"
    /\ UNCHANGED <<fs, env_key, uploads, request, idx, results, successful, failed,
                   invoked, model_requests, extractors>>
    /\ UNCHANGED extractVars

NextUrl ==
    \/ \E req \in UrlRequests : Receive(req)
    \/ UrlHandler
    \/ BatchBegin
    \/ BatchItem
    \/ BatchReturn

SpecUrl == InitUrl /\ [][NextUrl]_vars

--------------------------------------------------------------------------
(* Properties of the URL endpoints, under SpecUrl *)

HasKey == ~resolve_api_key(request.api_key, env_key).raised
BatchDone == pc = "done" /\ request.kind = "batch"
NUrls == Len(request.image_urls)

\* C1: a batch request with a credential and N URLs ends with total_processed = N,
\* successful + failed = N and N results, the i-th being the result of the call
\* made for the i-th URL.
C1_BatchTotals ==
    (BatchDone /\ HasKey) =>
        /\ response.status_code = 200
        /\ response.body.total_processed = NUrls
        /\ response.body.successful + response.body.failed = NUrls
        /\ Len(response.body.results) = NUrls
        /\ Len(invoked) = NUrls
        /\ \A i \in 1..NUrls :
              /\ invoked[i].url = request.image_urls[i]
              /\ response.body.results[i].image_info
                    = UrlImageInfo(request.image_urls[i])
              /\ ~invoked[i].out.raised =>
                    response.body.results[i] = invoked[i].out.val.result

C1_Witness ==
    /\ BatchDone /\ HasKey
    /\ request.image_urls = <<"https://example.com/a.jpg", "https://example.com/b.jpg">>
    /\ response.body.successful = 1
    /\ response.body.failed = 1
    /\ response.body.results[1].success
    /\ ~response.body.results[2].success

\* C2: in the loop, every URL consumed so far was given to the extractor once, in
\* order, and has its entry in results, whatever the earlier items did; an
\* exception that left the extractor is recorded as success=false with its
\* message and image_info {source: "url", url: <item>}; and the loop ends only
\* when every URL has been consumed.
C2_ItemFailureIsIsolated ==
    (request.kind = "batch" /\ pc \in {"loop", "done"} /\ HasKey) =>
        /\ Len(invoked) = idx
        /\ Len(results) = idx
        /\ \A i \in 1..idx :
              /\ invoked[i].url = request.image_urls[i]
              /\ invoked[i].out.raised =>
                    results[i] = [success |-> FALSE, entities |-> None,
                                  error |-> PyStr(invoked[i].out.exc.msg),
                                  image_info |-> UrlImageInfo(request.image_urls[i])]
        /\ pc = "done" => idx = NUrls

C2_Witness ==
    /\ BatchDone /\ HasKey
    /\ NUrls = 2
    /\ invoked[1].out.raised
    /\ results[1].error = PyStr("escaped")
    /\ Len(invoked) = 2
    /\ results[2].success

\* C3 as claimed, for the URL and batch endpoints: without a credential in the
\* request or the environment the response is HTTP 400 "OpenAI API key is
\* required", and no extractor was created or invoked and no request was sent.
C3_MissingKeyIs400 ==
    (pc = "done" /\ ~HasKey) =>
        /\ response.status_code = 400
        /\ response.error = PyStr("OpenAI API key is required")
        /\ extractors = 0
        /\ invoked = <<>>
        /\ model_requests = <<>>

\* The entries of rs with the given success flag.
CountOf(rs, flag) == Cardinality({i \in 1..Len(rs) : rs[i].success = flag})

\* C14: after every iteration of the batch loop, and in the response, successful
\* is the number of entries of results with success=true and failed the number
\* with success=false, and the two add up to the number of URLs consumed.
C14_CountersMatchResults ==
    /\ (request.kind = "batch" /\ pc \in {"loop", "done"} /\ HasKey) =>
            /\ successful = CountOf(results, TRUE)
            /\ failed = CountOf(results, FALSE)
            /\ successful + failed = idx
    /\ (BatchDone /\ HasKey) =>
            /\ response.body.successful = CountOf(response.body.results, TRUE)
            /\ response.body.failed = CountOf(response.body.results, FALSE)

C14_Witness ==
    /\ request.kind = "batch" /\ pc = "loop" /\ HasKey
    /\ NUrls = 2
    /\ idx = 2
    /\ successful = 1
    /\ failed = 1
    /\ ~results[1].success
    /\ results[2].success

--------------------------------------------------------------------------
(* POST /extract/file: uploads handled concurrently on one event loop.  The  *)
(* handler gives up control only at `await file.read()`, so it runs in two   *)
(* steps: up to the await, and from the await to its end.                    *)

RIDs == 1..NReq

Filenames == {"a.jpg", "b.jpg"}
TmpPath(filename) == "/tmp/" \o filename
TmpPaths == {TmpPath(f) : f \in Filenames}

\* content_type.startswith('image/') over the content types of the model.
ImageTypes == {"image/jpeg"}
ContentTypes == {None, PyStr("text/plain")} \cup {PyStr(t) : t \in ImageTypes}
startswith_image(content_type) == content_type \in ImageTypes

UploadBytes == {"imgA", "junk"}
UploadKeys == {None, PyStr("sk-request")}
Uploads ==
    [filename : Filenames, content_type : ContentTypes, content : UploadBytes,
     api_key : UploadKeys]

NoUpload == [filename |-> "", content_type |-> None, content |-> "", api_key |-> None]
IdleUpload ==
    [pc |-> "idle", file |-> NoUpload, created |-> FALSE, handle |-> 0,
     sent |-> <<>>, response |-> None]

\* if not file.content_type or not file.content_type.startswith('image/'): raise
validate_content_type(content_type) ==
    IF Falsy(content_type) \/ ~startswith_image(content_type.val)
    THEN Raised("HTTPException",
                HTTPExceptionStr(HTTPException(400, "File must be an image")))
    ELSE Returned(content_type)

\* open(temp_file_path, "wb") by request rid: an existing file is truncated in
\* place, a missing one is created.
open_wb(disk, path, rid) ==
    [disk EXCEPT ![path] =
        IF @.kind = "file" THEN RegularFile("", @.ino) ELSE RegularFile("", rid)]

\* buffer.write(content) and the close at the end of the with block: the bytes
\* reach the file the handle was opened on, which the path may no longer name.
write_close(disk, path, handle, content) ==
    IF disk[path].kind = "file" /\ disk[path].ino = handle
    THEN [disk EXCEPT ![path] = RegularFile(content, handle)]
    ELSE disk

\* finally: if os.path.exists(temp_file_path): os.remove(temp_file_path)
remove_if_exists(disk, path) ==
    IF os_path_exists(disk, path) THEN [disk EXCEPT ![path] = NoFile] ELSE disk

\* await file.read(): the uploaded bytes, or an I/O error.
ReadOutcomes(content) == {Returned(PyStr(content)), Raised("OSError", "read failed")}

InitFile ==
    /\ fs = [p \in TmpPaths |-> NoFile]
    /\ env_key \in EnvKeys
    /\ ExtractIdle
    /\ model_requests = <<>> /\ extractors = 0
    /\ UrlIdle
    /\ uploads = [r \in RIDs |-> IdleUpload]

\* extract_entities_from_file up to `await file.read()`: validation, the
\* credential, the extractor and the open of the temporary file.
FileReceive(r, file) ==
    /\ uploads[r].pc = "idle"
    /\ LET ctype == validate_content_type(file.content_type)
           api_key == resolve_api_key(file.api_key, env_key)
           path == TmpPath(file.filename)
       IN IF ctype.raised \/ api_key.raised
          THEN /\ uploads' = [uploads EXCEPT ![r] =
                    [IdleUpload EXCEPT
                        !.pc = "done", !.file = file,
                        !.response = http_exception_handler(reraise_as_500(
                            IF ctype.raised THEN ctype.exc.msg ELSE api_key.exc.msg))]]
               /\ UNCHANGED <<fs, extractors>>
          ELSE /\ fs' = open_wb(fs, path, r)
               /\ extractors' = extractors + 1
               /\ uploads' = [uploads EXCEPT ![r] =
                    [IdleUpload EXCEPT
                        !.pc = "reading", !.file = file, !.created = TRUE,
                        !.handle = open_wb(fs, path, r)[path].ino]]
    /\ UNCHANGED <<env_key, model_requests>>
    /\ UNCHANGED extractVars
    /\ UNCHANGED urlVars

\* extract_entities_from_file from the await on: the write, the extraction, the
\* cleanup of the finally block and the response.
FileResume(r) ==
    /\ uploads[r].pc = "reading"
    /\ LET file == uploads[r].file
           path == TmpPath(file.filename)
       IN \E content \in ReadOutcomes(file.content), up \in ServiceUpstreams :
            IF content.raised
            THEN /\ uploads' = [uploads EXCEPT ![r] =
                      [@ EXCEPT !.pc = "done",
                                !.response = http_exception_handler(
                                                reraise_as_500(content.exc.msg))]]
                 /\ UNCHANGED fs
            ELSE LET written == write_close(fs, path, uploads[r].handle,
                                            content.val.val)
                     eff == extract_entities(written, path, up)
                 IN /\ fs' = remove_if_exists(written, path)
                    /\ uploads' = [uploads EXCEPT ![r] =
                         [@ EXCEPT !.pc = "done",
                                   !.sent = eff.requests,
                                   !.response =
                                      IF ResponseOf(eff.result).raised
                                      THEN http_exception_handler(reraise_as_500(
                                               ResponseOf(eff.result).exc.msg))
                                      ELSE OkResponse(ResponseOf(eff.result).val)]]
    /\ UNCHANGED <<env_key, model_requests, extractors>>
    /\ UNCHANGED extractVars
    /\ UNCHANGED urlVars

NextFile ==
    \/ \E r \in RIDs, file \in Uploads : FileReceive(r, file)
    \/ \E r \in RIDs : FileResume(r)

SpecFile == InitFile /\ [][NextFile]_vars

--------------------------------------------------------------------------
(* Properties of the upload endpoint, under SpecFile *)

Done(r) == uploads[r].pc = "done"
BadType(r) == validate_content_type(uploads[r].file.content_type).raised

\* C4 as claimed: an upload whose content type is absent or not image/* gets
\* HTTP 400 "File must be an image", and no temporary file was written and no
\* request was sent to the model.
C4_BadTypeIs400 ==
    \A r \in RIDs :
        (Done(r) /\ BadType(r)) =>
            /\ uploads[r].response.status_code = 400
            /\ uploads[r].response.error = PyStr("File must be an image")
            /\ ~uploads[r].created
            /\ uploads[r].sent = <<>>

\* No other request has touched the temporary path of r.
AloneOnPath(r) ==
    \A q \in RIDs \ {r} :
        uploads[q].pc = "idle" \/ uploads[q].file.filename # uploads[r].file.filename

\* C5 as claimed: once a request that created its temporary file has completed,
\* on whatever path, the file is gone.
C5_TempFileRemoved ==
    \A r \in RIDs :
        (Done(r) /\ uploads[r].created /\ AloneOnPath(r)) =>
            fs[TmpPath(uploads[r].file.filename)].kind = "absent"

\* C6 as claimed: every upload whose extraction ran sent the model exactly the
\* bytes it uploaded, and is not told that its image file was not found,
\* whatever the other uploads do.
C6_UploadsAreIsolated ==
    \A r \in RIDs :
        (Done(r) /\ uploads[r].response.status_code = 200) =>
            /\ uploads[r].response.body.error
                  # PyStr("Image file not found: " \o TmpPath(uploads[r].file.filename))
            /\ \A k \in 1..Len(uploads[r].sent) :
                  uploads[r].sent[k].url
                     = "data:image/jpeg;base64," \o b64encode(uploads[r].file.content)

====
